---- MODULE Spec2Model ----
(***************************************************************************)
(* Model of src/app.py: the IdeaSoft -> Ikas 301 redirect generator.       *)
(*                                                                         *)
(* Text is modelled as sequences of one-character strings, so that the     *)
(* substring scans, URL parsing and normalisations of the program are      *)
(* computed rather than assumed.  A non-ASCII character is one token       *)
(* ("Ouml" is U+00D6, "uuml" is U+00FC, "inodot" is U+0131).                *)
(***************************************************************************)
EXTENDS Integers, Sequences, FiniteSets, TLC

VARIABLES
  pc,            \* position of the script / of find_all_page_links
  start_url,     \* argument of find_all_page_links
  max_pages,     \* argument of find_all_page_links
  start_html,    \* the document fetched at line 651 (NoHtml while there is none)
  to_visit,      \* work queue (line 655)
  visited,       \* visited set (line 656)
  all_pages,     \* recorded pages (line 657)
  pages,         \* visit counter (line 658)
  origin,        \* history: how each URL last entered the queue
  fetched,       \* history: the URLs fetched by the crawler, in order
  last,          \* history: what the last loop iteration did
  result,        \* the value find_all_page_links returned (pc = "returned")
  ikas_site_url, \* input of the script (line 726), <<>> when not given
  sku_to_slug,   \* line 764
  barcode_to_slug, \* line 765
  slug_set,      \* line 766
  title_to_slug, \* line 767
  page_i,        \* position of the loop of line 794 in the crawled pages
  redirects_rows, \* line 791
  diagnostics,   \* line 792
  probes,        \* history: what the matcher fetched and extracted per page
  ikas301,       \* line 923
  downloads,     \* the files offered for download (lines 941, 962)
  f_pc,          \* position of fetch_html
  max_retries,   \* argument of fetch_html
  attempt,       \* loop variable of line 35
  responses,     \* history: the outcome of each request of fetch_html
  sleeps,        \* history: the arguments of time.sleep (line 45)
  fetch_result,  \* what fetch_html returned: "text" or "None" ("pending" before)
  type_pc,       \* position of _determine_page_type
  type_url,      \* argument of _determine_page_type
  type_soup,     \* argument of _determine_page_type
  type_out,      \* what _determine_page_type returned
  price_pc,      \* position of clean_price_to_number
  price_in,      \* argument of clean_price_to_number
  price_out,     \* what clean_price_to_number returned
  ld_pc,         \* position of parse_ld_json_product
  ld_blocks,     \* the parsed ld+json blocks of the document, in order
  candidates,    \* line 199
  ld_i,          \* position of the loop of line 214 in candidates
  product_node   \* line 213

crawlVars == <<start_url, max_pages, start_html, to_visit, visited, all_pages,
               pages, origin, fetched, last, result>>

matchVars == <<ikas_site_url, sku_to_slug, barcode_to_slug, slug_set, title_to_slug,
               page_i, redirects_rows, diagnostics, probes, ikas301, downloads>>

fetchVars == <<f_pc, max_retries, attempt, responses, sleeps, fetch_result>>

typeVars == <<type_pc, type_url, type_soup, type_out>>

priceVars == <<price_pc, price_in, price_out>>

ldVars == <<ld_pc, ld_blocks, candidates, ld_i, product_node>>

funVars == <<typeVars, priceVars, ldVars>>

vars == <<pc, crawlVars, matchVars, fetchVars, funVars>>

\* Python's None, where the model holds text otherwise
None == <<"None">>

(***************************************************************************)
(* Bounds of the model.                                                    *)
(***************************************************************************)
MaxPagesBound == 3      \* max_pages ranges over 0..MaxPagesBound
MaxAnchors    == 2      \* anchors per document
MaxMatchPages == 2      \* pages handed to the matcher in SpecMatch
MaxRetriesBound == 3    \* max_retries ranges over 0..MaxRetriesBound
ScriptMaxPages == 2     \* max_pages ranges over 0..ScriptMaxPages in SpecScript
MaxPriceLen == 3        \* length of the generated price texts
MaxBlocks == 2          \* ld+json blocks per document

(***************************************************************************)
(* Text helpers.                                                           *)
(***************************************************************************)
Upper == <<"A","B","C","D","E","F","G","H","I","J","K","L","M",
           "N","O","P","Q","R","S","T","U","V","W","X","Y","Z">>
Lower == <<"a","b","c","d","e","f","g","h","i","j","k","l","m",
           "n","o","p","q","r","s","t","u","v","w","x","y","z">>
Digits == {"0","1","2","3","4","5","6","7","8","9"}
Whitespace == {" ", "\t", "\n"}

Range(s) == {s[i] : i \in DOMAIN s}

\* str.lower() on one character
LowerChar(c) ==
  IF \E i \in DOMAIN Upper : Upper[i] = c
  THEN Lower[CHOOSE i \in DOMAIN Upper : Upper[i] = c]
  ELSE IF c = "Ouml" THEN "ouml" ELSE IF c = "Uuml" THEN "uuml" ELSE c

\* str.upper() on one character
UpperChar(c) ==
  IF \E i \in DOMAIN Lower : Lower[i] = c
  THEN Upper[CHOOSE i \in DOMAIN Lower : Lower[i] = c]
  ELSE IF c = "ouml" THEN "Ouml" ELSE IF c = "uuml" THEN "Uuml" ELSE c

ToLower(s) == [i \in DOMAIN s |-> LowerChar(s[i])]
ToUpper(s) == [i \in DOMAIN s |-> UpperChar(s[i])]

\* pattern in s
Contains(s, pat) ==
  \E i \in 1..(Len(s) - Len(pat) + 1) : SubSeq(s, i, i + Len(pat) - 1) = pat

StartsWith(s, pat) == Len(s) >= Len(pat) /\ SubSeq(s, 1, Len(pat)) = pat
EndsWith(s, pat) ==
  Len(s) >= Len(pat) /\ SubSeq(s, Len(s) - Len(pat) + 1, Len(s)) = pat

\* least index >= from of a character of cs in s, Len(s)+1 when there is none
IndexOfAny(s, cs, from) ==
  IF \E i \in from..Len(s) : s[i] \in cs
  THEN CHOOSE i \in from..Len(s) :
         s[i] \in cs /\ \A j \in from..(i-1) : s[j] \notin cs
  ELSE Len(s) + 1

\* s.strip(cs)
StripChars(s, cs) ==
  IF \A i \in DOMAIN s : s[i] \in cs THEN <<>>
  ELSE LET a == CHOOSE i \in DOMAIN s :
                  s[i] \notin cs /\ \A j \in 1..(i-1) : s[j] \in cs
           b == CHOOSE i \in DOMAIN s :
                  s[i] \notin cs /\ \A j \in (i+1)..Len(s) : s[j] \in cs
       IN SubSeq(s, a, b)

Strip(s) == StripChars(s, Whitespace)

\* s.split(c)[-1]
LastField(s, c) ==
  IF \E i \in DOMAIN s : s[i] = c
  THEN LET k == CHOOSE i \in DOMAIN s :
                  s[i] = c /\ \A j \in (i+1)..Len(s) : s[j] # c
       IN SubSeq(s, k + 1, Len(s))
  ELSE s

(***************************************************************************)
(* urllib.parse, for the URL shapes of the model:                          *)
(*   scheme ":" "//" netloc path "?" query "#" fragment                    *)
(***************************************************************************)
urlparse(u) ==
  LET colon  == IndexOfAny(u, {":"}, 1)
      hasSch == colon <= Len(u) /\ colon > 1
                /\ \A i \in 1..(colon-1) : u[i] \notin {"/", "?", "#"}
      scheme == IF hasSch THEN ToLower(SubSeq(u, 1, colon - 1)) ELSE <<>>
      rest   == IF hasSch THEN SubSeq(u, colon + 1, Len(u)) ELSE u
      hasNet == StartsWith(rest, <<"/","/">>)
      netEnd == IF hasNet THEN IndexOfAny(rest, {"/", "?", "#"}, 3) ELSE 1
      netloc == IF hasNet THEN SubSeq(rest, 3, netEnd - 1) ELSE <<>>
      tail   == SubSeq(rest, netEnd, Len(rest))
      hash   == IndexOfAny(tail, {"#"}, 1)
      nofrag == SubSeq(tail, 1, hash - 1)
      qm     == IndexOfAny(nofrag, {"?"}, 1)
  IN [scheme   |-> scheme,
      netloc   |-> netloc,
      path     |-> SubSeq(nofrag, 1, qm - 1),
      query    |-> SubSeq(nofrag, qm + 1, Len(nofrag)),
      fragment |-> SubSeq(tail, hash + 1, Len(tail))]

\* urlunparse((scheme, netloc, path, "", "", ""))
urlunparse(scheme, netloc, path) ==
  LET p == IF netloc # <<>>
           THEN <<"/","/">> \o netloc
                \o (IF path # <<>> /\ path[1] # "/" THEN <<"/">> ELSE <<>>) \o path
           ELSE path
  IN IF scheme # <<>> THEN scheme \o <<":">> \o p ELSE p

\* lines 87-93
_same_domain(url_a, url_b) == urlparse(url_a).netloc = urlparse(url_b).netloc

\* lines 100-133
exclude_patterns ==
  <<<<"/","c","h","e","c","k","o","u","t">>,
    <<"/","c","a","r","t">>,
    <<"/","s","e","p","e","t">>,
    <<"/","l","o","g","i","n">>,
    <<"/","g","i","r","i","s">>,
    <<"/","r","e","g","i","s","t","e","r">>,
    <<"/","u","y","e","-","o","l">>,
    <<"/","l","o","g","o","u","t">>,
    <<"/","c","i","k","i","s">>,
    <<"/","s","e","a","r","c","h">>,
    <<"/","a","r","a">>,
    <<"/","f","i","l","t","e","r">>,
    <<"/","c","o","m","p","a","r","e">>,
    <<"/","k","a","r","s","i","l","a","s","t","i","r">>,
    <<"/","w","i","s","h","l","i","s","t">>,
    <<"/","f","a","v","o","r","i">>,
    <<"/","p","r","o","f","i","l","e">>,
    <<"/","p","r","o","f","i","l">>,
    <<"/","a","c","c","o","u","n","t">>,
    <<"/","h","e","s","a","p">>,
    <<"/","p","a","y","m","e","n","t">>,
    <<"/","o","d","e","m","e">>,
    <<"/","a","p","i","/">>,
    <<"/","a","j","a","x","/">>,
    <<"/","a","j","a","x">>,
    <<"/","j","s","o","n","/">>,
    <<".","j","s","o","n">>,
    <<".","x","m","l">>,
    <<".","r","s","s">>,
    <<"#">>,
    <<"?","p","r","i","n","t","=">>,
    <<"?","e","x","p","o","r","t","=">>>>

\* lines 95-134
_should_exclude_url(href) ==
  IF href = <<>> THEN TRUE
  ELSE LET href_l == ToLower(href)
       IN \E k \in DOMAIN exclude_patterns : Contains(href_l, exclude_patterns[k])

(***************************************************************************)
(* slugify, lines 70-79.                                                   *)
(***************************************************************************)
\* unicodedata.normalize("NFKD", c).encode("ascii", "ignore"): the ASCII
\* characters of the decomposition (U+0131 has none and is dropped)
AsciiFold(c) ==
  CASE c = "Ouml"   -> <<"O">>
    [] c = "ouml"   -> <<"o">>
    [] c = "Uuml"   -> <<"U">>
    [] c = "uuml"   -> <<"u">>
    [] c = "inodot" -> <<>>
    [] OTHER        -> <<c>>

RECURSIVE FoldAll(_)
FoldAll(s) == IF s = <<>> THEN <<>> ELSE AsciiFold(Head(s)) \o FoldAll(Tail(s))

SlugChars == Range(Lower) \cup Digits

\* re.sub(r"[^a-z0-9]+", "-", s)
RECURSIVE SubNonAlnumRuns(_)
SubNonAlnumRuns(s) ==
  IF s = <<>> THEN <<>>
  ELSE IF Head(s) \in SlugChars THEN <<Head(s)>> \o SubNonAlnumRuns(Tail(s))
  ELSE LET k == IndexOfAny(s, SlugChars, 1)
       IN <<"-">> \o SubNonAlnumRuns(SubSeq(s, k, Len(s)))

\* re.sub(r"-{2,}", "-", s)
RECURSIVE CollapseDashes(_)
CollapseDashes(s) ==
  IF Len(s) < 2 THEN s
  ELSE IF s[1] = "-" /\ s[2] = "-" THEN CollapseDashes(Tail(s))
  ELSE <<Head(s)>> \o CollapseDashes(Tail(s))

slugify(value) ==
  IF value = <<>> THEN <<>>
  ELSE CollapseDashes(StripChars(SubNonAlnumRuns(ToLower(FoldAll(value))), {"-"}))

\* str.replace(a, b) for single characters
ReplaceChar(s, a, b) == [i \in DOMAIN s |-> IF s[i] = a THEN b ELSE s[i]]

IsLetter(c) == c \in Range(Upper) \cup Range(Lower) \cup {"Ouml","ouml","Uuml","uuml","inodot"}

\* str.title()
TitleCase(s) ==
  [i \in DOMAIN s |->
     IF i = 1 \/ ~IsLetter(s[i-1]) THEN UpperChar(s[i]) ELSE LowerChar(s[i])]

(***************************************************************************)
(* Documents.  A fetched document is what the program reads from it: the   *)
(* absolute targets of its anchors (after urljoin), the target of the      *)
(* first matching "next" selector, the three title sources and the page    *)
(* type hints.  An absent element is the empty text or None.               *)
(***************************************************************************)
Doc(hrefs, next, c) ==
  [hrefs |-> hrefs, next |-> next,
   title |-> c.title, og_title |-> c.og_title, h1 |-> c.h1,
   og_type |-> c.og_type, product_div |-> c.product_div,
   breadcrumb |-> c.breadcrumb]

\* line 141
product_patterns ==
  {<<"/","u","r","u","n","-">>, <<"/","u","r","u","n","/">>,
   <<"/","p","r","o","d","u","c","t","/">>, <<"/","p","-">>, <<"/","p","/">>,
   <<"/","d","e","t","a","y","-">>, <<"/","d","e","t","a","i","l","/">>}

\* line 146
blog_patterns ==
  {<<"/","b","l","o","g">>, <<"/","h","a","b","e","r">>,
   <<"/","n","e","w","s">>, <<"/","a","r","t","i","c","l","e">>}

\* line 151
category_patterns ==
  {<<"/","k","a","t","e","g","o","r","i">>, <<"/","c","a","t","e","g","o","r","y">>,
   <<"/","k","a","t","a","l","o","g">>, <<"/","c","a","t","a","l","o","g">>}

\* lines 136-168 as they would be with the HTML inspected before the URL
_determine_page_type_html_first(url, soup) ==
  LET path == urlparse(ToLower(url)).path
      og == ToLower(soup.og_type)
  IN IF Contains(og, <<"p","r","o","d","u","c","t">>) THEN "product"
     ELSE IF Contains(og, <<"a","r","t","i","c","l","e">>)
             \/ Contains(og, <<"b","l","o","g">>) THEN "blog"
     ELSE IF soup.product_div THEN "product"
     ELSE IF soup.breadcrumb /\ Contains(path, <<"/","u","r","u","n">>) THEN "product"
     ELSE IF \E p \in product_patterns : Contains(path, p) THEN "product"
     ELSE IF \E p \in blog_patterns : Contains(path, p) THEN "blog"
     ELSE IF \E p \in category_patterns : Contains(path, p) THEN "category"
     ELSE "page"

\* lines 136-168
_determine_page_type(url, soup) ==
  LET path == urlparse(ToLower(url)).path
      og == ToLower(soup.og_type)
  IN IF \E p \in product_patterns : Contains(path, p) THEN "product"
     ELSE IF \E p \in blog_patterns : Contains(path, p) THEN "blog"
     ELSE IF \E p \in category_patterns : Contains(path, p) THEN "category"
     ELSE IF Contains(og, <<"p","r","o","d","u","c","t">>) THEN "product"
     ELSE IF Contains(og, <<"a","r","t","i","c","l","e">>)
             \/ Contains(og, <<"b","l","o","g">>) THEN "blog"
     ELSE IF soup.product_div THEN "product"
     ELSE IF soup.breadcrumb /\ Contains(path, <<"/","u","r","u","n">>) THEN "product"
     ELSE "page"

\* lines 674-687: the page title
PageTitle(current, soup) ==
  LET t1 == Strip(soup.title)
      t2 == IF t1 # <<>> THEN t1 ELSE Strip(soup.og_title)
      t3 == IF t2 # <<>> THEN t2 ELSE Strip(soup.h1)
  IN IF t3 # <<>> THEN t3
     ELSE TitleCase(ReplaceChar(
            LastField(StripChars(urlparse(current).path, {"/"}), "/"), "-", " "))

\* lines 689-692: the page slug
PageSlug(current, soup) ==
  LET title    == PageTitle(current, soup)
      path     == StripChars(urlparse(current).path, {"/"})
      url_slug == IF path # <<>> THEN LastField(path, "/") ELSE <<>>
  IN IF title # <<>> THEN slugify(title) ELSE url_slug

\* lines 694-699
CrawlPage(current, soup) ==
  [url   |-> current,
   title |-> PageTitle(current, soup),
   slug  |-> PageSlug(current, soup),
   type  |-> _determine_page_type(current, soup)]

\* lines 621-626: scheme, netloc and path only
Normalize(abs_url) ==
  LET p == urlparse(abs_url) IN urlunparse(p.scheme, p.netloc, p.path)

(***************************************************************************)
(* Normalisers of the matcher, lines 170-183.                              *)
(***************************************************************************)
RemoveWhitespace(s) == SelectSeq(s, LAMBDA c : c \notin Whitespace)

\* lines 170-175
_normalize_sku(value) ==
  IF value = None \/ value = <<>> THEN <<>>
  ELSE ToUpper(RemoveWhitespace(Strip(value)))

\* the characters line 181 keeps: a-z, 0-9, the Turkish lower-case letters
\* and white space
TitleChars == Range(Lower) \cup Digits \cup {"ouml", "uuml", "inodot"} \cup Whitespace

\* re.sub(r"\s+", " ", s)
RECURSIVE CollapseSpaces(_)
CollapseSpaces(s) ==
  IF s = <<>> THEN <<>>
  ELSE IF Head(s) \in Whitespace
  THEN LET k == IF \E i \in DOMAIN s : s[i] \notin Whitespace
                THEN CHOOSE i \in DOMAIN s :
                       s[i] \notin Whitespace /\ \A j \in 1..(i-1) : s[j] \in Whitespace
                ELSE Len(s) + 1
       IN <<" ">> \o CollapseSpaces(SubSeq(s, k, Len(s)))
  ELSE <<Head(s)>> \o CollapseSpaces(Tail(s))

\* lines 177-183
_normalize_title(value) ==
  IF value = None \/ value = <<>> THEN <<>>
  ELSE LET v  == ToLower(value)
           v2 == [i \in DOMAIN v |-> IF v[i] \in TitleChars THEN v[i] ELSE " "]
       IN Strip(CollapseSpaces(v2))

\* s.split(c)
RECURSIVE Split(_, _)
Split(s, c) ==
  LET k == IndexOfAny(s, {c}, 1)
  IN IF k > Len(s) THEN <<s>>
     ELSE <<SubSeq(s, 1, k - 1)>> \o Split(SubSeq(s, k + 1, Len(s)), c)

(***************************************************************************)
(* find_sku and find_barcode, lines 347-370 and 502-526.  A product        *)
(* document is the elements the selectors of each function match, in the   *)
(* order of the selector list: each has its text (get_text(" ",            *)
(* strip=True)), its content attribute (None when it has none) and         *)
(* whether it carries itemprop="sku".                                      *)
(***************************************************************************)
WordChars == Range(Upper) \cup Range(Lower) \cup Digits \cup {"_"}

\* the label of labels that s starts with (case-insensitively, as a whole
\* word), <<>> when there is none
LabelAt(s, labels) ==
  LET hits == {l \in labels :
                 /\ Len(s) >= Len(l)
                 /\ ToLower(SubSeq(s, 1, Len(l))) = ToLower(l)
                 /\ (Len(s) = Len(l) \/ s[Len(l) + 1] \notin WordChars)}
  IN IF hits = {} THEN <<>> ELSE CHOOSE l \in hits : TRUE

\* re.sub(r"(?i)\b(L1|L2|...)\b[:\s]*", "", s); prev is the character before s
RECURSIVE StripLabelsFrom(_, _, _)
StripLabelsFrom(s, prev, labels) ==
  IF s = <<>> THEN <<>>
  ELSE LET l == IF prev \in WordChars THEN <<>> ELSE LabelAt(s, labels)
       IN IF l # <<>>
          THEN LET after == SubSeq(s, Len(l) + 1, Len(s))
                   k == IF \E i \in DOMAIN after : after[i] \notin Whitespace \cup {":"}
                        THEN CHOOSE i \in DOMAIN after :
                               /\ after[i] \notin Whitespace \cup {":"}
                               /\ \A j \in 1..(i-1) : after[j] \in Whitespace \cup {":"}
                        ELSE Len(after) + 1
                   skipped == SubSeq(s, 1, Len(l) + k - 1)
               IN StripLabelsFrom(SubSeq(after, k, Len(after)),
                                  skipped[Len(skipped)], labels)
          ELSE <<Head(s)>> \o StripLabelsFrom(Tail(s), Head(s), labels)

StripLabels(s, labels) == StripLabelsFrom(s, " ", labels)

SkuLabels == {<<"S","K","U">>, <<"S","t","o","k"," ","K","o","d","u">>,
              <<"M","o","d","e","l">>}
BarcodeLabels == {<<"B","a","r","k","o","d">>, <<"B","a","r","c","o","d","e">>,
                  <<"G","T","I","N">>, <<"E","A","N">>}

\* lines 347-370
find_sku(soup) ==
  LET txt(k) == Strip(StripLabels(soup.sku_elems[k].text, SkuLabels))
      hits   == {k \in DOMAIN soup.sku_elems : txt(k) # <<>>}
      props  == {k \in DOMAIN soup.sku_elems : soup.sku_elems[k].itemprop}
  IN IF hits # {} THEN txt(CHOOSE k \in hits : \A j \in hits : k <= j)
     ELSE IF props # {}
     THEN LET el == soup.sku_elems[CHOOSE k \in props : \A j \in props : k <= j]
          IN IF el.content # None THEN Strip(el.content) ELSE el.text
     ELSE None

\* lines 502-526, called with ld = None
find_barcode(soup) ==
  LET out(k) ==
        LET el  == soup.barcode_elems[k]
            raw == IF el.content # None /\ el.content # <<>> THEN el.content
                   ELSE el.text
        IN StripLabels(Strip(raw), BarcodeLabels)
      hits == {k \in DOMAIN soup.barcode_elems : out(k) # <<>>}
  IN IF hits # {} THEN out(CHOOSE k \in hits : \A j \in hits : k <= j) ELSE None

(***************************************************************************)
(* The inputs of the model.                                                *)
(***************************************************************************)
SiteA == <<"h","t","t","p",":","/","/","a">>
SiteB == <<"h","t","t","p",":","/","/","b">>

U_root  == SiteA
U_x     == SiteA \o <<"/","x">>
U_xq    == SiteA \o <<"/","x","?","p","=","2">>
U_xf    == SiteA \o <<"/","x","#","z">>
U_login == SiteA \o <<"/","l","o","g","i","n">>
U_xml   == SiteA \o <<"/","f",".","x","m","l">>
U_b     == SiteB \o <<"/","x">>
U_y     == SiteA \o <<"/","y">>

\* every URL of the model; closed under Normalize
RawUrls    == {U_root, U_x, U_xq, U_xf, U_login, U_xml, U_b, U_y}
StartUrls  == {U_root, U_xq, U_login}
\* the absolute targets an anchor may have, and those a "next" element may have
AnchorUrls == {U_x, U_xq, U_xf, U_login, U_b, U_y}
NextUrls   == {None, U_x, U_xq, U_xml, U_b}

BlankContent ==
  [title |-> <<>>, og_title |-> <<>>, h1 |-> <<>>, og_type |-> <<>>,
   product_div |-> FALSE, breadcrumb |-> FALSE]

\* stands for None where a document is expected
NoHtml == Doc({}, None, BlankContent)

\* what the site serves at each URL besides its links
SiteContent(u) ==
  IF u = U_root
  THEN [BlankContent EXCEPT !.title = <<" ","Ouml","r"," ","X","!">>]
  ELSE IF u = U_xq
  THEN [BlankContent EXCEPT !.og_type = <<"P","r","o","d","u","c","t">>,
                            !.h1 = <<"A","b">>]
  ELSE BlankContent

AnchorSets == {h \in SUBSET AnchorUrls : Cardinality(h) <= MaxAnchors}

\* the documents a successful fetch of url may return
Htmls(url) == {Doc(h, n, SiteContent(url)) : h \in AnchorSets, n \in NextUrls}

\* the orders in which a Python set may be iterated
Orderings(S) ==
  {q \in [1..Cardinality(S) -> S] : \A i, j \in DOMAIN q : i # j => q[i] # q[j]}

InQueue(u, q) == \E i \in DOMAIN q : q[i] = u

\* _should_exclude_url, Normalize, the netloc and the page record of every URL
\* of the model, evaluated once
UrlInfo ==
  [u \in RawUrls |->
     [excluded |-> _should_exclude_url(u),
      normal   |-> Normalize(u),
      netloc   |-> urlparse(u).netloc,
      page     |-> CrawlPage(u, Doc({}, None, SiteContent(u)))]]

\* lines 611-628: the anchors kept by _discover_all_links_from_page
FoundLinks(base_url, soup) ==
  {UrlInfo[a].normal : a \in
     {h \in soup.hrefs :
        /\ h # <<>>
        /\ UrlInfo[base_url].netloc = UrlInfo[h].netloc
        /\ ~UrlInfo[h].excluded
        /\ UrlInfo[h].normal # <<>>
        /\ UrlInfo[h].normal # base_url}}

\* lines 630-645: the pagination link
NextLink(base_url, soup) == soup.next

(***************************************************************************)
(* find_all_page_links, lines 649-709.                                     *)
(***************************************************************************)
CrawlInit ==
  /\ pc = "call"
  /\ start_url \in StartUrls
  /\ max_pages \in 0..MaxPagesBound
  /\ start_html = NoHtml
  /\ to_visit = <<>>
  /\ visited = {}
  /\ all_pages = <<>>
  /\ pages = 0
  /\ origin = {}
  /\ fetched = <<>>
  /\ last = [kind |-> "none", url |-> <<>>, n |-> 0]
  /\ result = <<>>

\* lines 651-653: the start page cannot be fetched
FetchStartFail ==
  /\ pc = "call"
  /\ start_html' = NoHtml
  /\ fetched' = Append(fetched, start_url)
  /\ result' = <<>>
  /\ pc' = "returned"
  /\ UNCHANGED <<matchVars, fetchVars, funVars>>
  /\ UNCHANGED <<start_url, max_pages, to_visit, visited, all_pages, pages, origin, last>>

\* lines 651-658
FetchStartOk ==
  /\ pc = "call"
  /\ \E h \in Htmls(start_url) : start_html' = h
  /\ fetched' = Append(fetched, start_url)
  /\ to_visit' = <<start_url>>
  /\ origin' = {<<start_url, "start">>}
  /\ pc' = "loop"
  /\ UNCHANGED <<matchVars, fetchVars, funVars>>
  /\ UNCHANGED <<start_url, max_pages, visited, all_pages, pages, last, result>>

\* line 660 as it would be with the budget test off by one
LoopConditionOffByOne == to_visit # <<>> /\ pages <= max_pages

\* line 660
LoopCondition == to_visit # <<>> /\ pages < max_pages

\* line 662 as it would be without the exclusion test
SkipVisitedOnly(current) == current \in visited

\* line 662
SkipCurrent(current) == current \in visited \/ UrlInfo[current].excluded

\* lines 660-663 as they would be if the skipped URL stayed at the head of
\* the queue
LoopSkipKeepsHead ==
  /\ pc = "loop"
  /\ to_visit # <<>> /\ pages < max_pages
  /\ Head(to_visit) \in visited \/ UrlInfo[Head(to_visit)].excluded
  /\ UNCHANGED vars

\* lines 660-663: the dequeued URL is visited already or excluded
LoopSkip ==
  /\ pc = "loop"
  /\ LoopCondition
  /\ SkipCurrent(Head(to_visit))
  /\ to_visit' = Tail(to_visit)
  /\ last' = [kind |-> "skipped", url |-> Head(to_visit), n |-> last.n + 1]
  /\ UNCHANGED <<matchVars, fetchVars, funVars>>
  /\ UNCHANGED <<pc, start_url, max_pages, start_html, visited, all_pages, pages,
                 origin, fetched, result>>

\* lines 660-669 as they would be if a failed fetch ended the crawl
LoopFetchFailAborts ==
  /\ pc = "loop"
  /\ to_visit # <<>> /\ pages < max_pages
  /\ ~(Head(to_visit) \in visited \/ UrlInfo[Head(to_visit)].excluded)
  /\ Head(to_visit) # start_url
  /\ to_visit' = Tail(to_visit)
  /\ visited' = visited \cup {Head(to_visit)}
  /\ pages' = pages + 1
  /\ fetched' = Append(fetched, Head(to_visit))
  /\ last' = [kind |-> "fetch_failed", url |-> Head(to_visit), n |-> last.n + 1]
  /\ result' = <<>>
  /\ pc' = "returned"
  /\ UNCHANGED <<matchVars, fetchVars, funVars>>
  /\ UNCHANGED <<start_url, max_pages, start_html, all_pages, origin>>

\* lines 660-669: the fetch of the dequeued URL fails
LoopFetchFail ==
  /\ pc = "loop"
  /\ LoopCondition
  /\ ~SkipCurrent(Head(to_visit))
  /\ Head(to_visit) # start_url
  /\ to_visit' = Tail(to_visit)
  /\ visited' = visited \cup {Head(to_visit)}
  /\ pages' = pages + 1
  /\ fetched' = Append(fetched, Head(to_visit))
  /\ last' = [kind |-> "fetch_failed", url |-> Head(to_visit), n |-> last.n + 1]
  /\ UNCHANGED <<matchVars, fetchVars, funVars>>
  /\ UNCHANGED <<pc, start_url, max_pages, start_html, all_pages, origin, result>>

\* lines 701-707 as they would be with the pagination link appended untested
EnqueueUnchecked(queue, seen, order, next_link) ==
  IF next_link # None /\ next_link # <<>>
  THEN Append(queue \o order, next_link)
  ELSE queue \o order

\* lines 701-707: the queue after the links of the page are added
Enqueue(queue, seen, order, next_link) ==
  LET q1 == queue \o order
  IN IF next_link # None /\ next_link # <<>>
        /\ next_link \notin seen /\ ~InQueue(next_link, q1)
     THEN Append(q1, next_link)
     ELSE q1

\* lines 660-707: the dequeued URL is fetched, recorded and its links queued
LoopVisit ==
  /\ pc = "loop"
  /\ LoopCondition
  /\ ~SkipCurrent(Head(to_visit))
  /\ \E current \in {Head(to_visit)}, rest \in {Tail(to_visit)} :
     \E soup \in (IF current = start_url THEN {start_html} ELSE Htmls(current)) :
     \E found_here \in {FoundLinks(current, soup)}, next_link \in {NextLink(current, soup)} :
     \E new_links \in {{u \in found_here : u \notin visited \cup {current} /\ ~InQueue(u, rest)}} :
     \E order \in Orderings(new_links) :
       /\ to_visit' = Enqueue(rest, visited \cup {current}, order, next_link)
       /\ visited' = visited \cup {current}
       /\ pages' = pages + 1
       /\ all_pages' = Append(all_pages, UrlInfo[current].page)
       /\ fetched' = IF current = start_url THEN fetched ELSE Append(fetched, current)
       /\ origin' = origin \cup {<<u, "anchor">> : u \in new_links}
                      \cup (IF Len(to_visit') > Len(rest) + Len(order)
                            THEN {<<next_link, "next">>} ELSE {})
       /\ last' = [kind |-> "visited", url |-> current, n |-> last.n + 1]
  /\ UNCHANGED <<matchVars, fetchVars, funVars>>
  /\ UNCHANGED <<pc, start_url, max_pages, start_html, result>>

\* lines 660, 709
LoopExit ==
  /\ pc = "loop"
  /\ ~LoopCondition
  /\ result' = all_pages
  /\ pc' = "returned"
  /\ UNCHANGED <<matchVars, fetchVars, funVars>>
  /\ UNCHANGED <<start_url, max_pages, start_html, to_visit, visited, all_pages,
                 pages, origin, fetched, last>>

(***************************************************************************)
(* The script after the crawl, lines 756-967.                              *)
(***************************************************************************)
MatchIdle ==
  /\ ikas_site_url = <<>>
  /\ sku_to_slug = <<>>
  /\ barcode_to_slug = <<>>
  /\ slug_set = {}
  /\ title_to_slug = <<>>
  /\ page_i = 1
  /\ redirects_rows = <<>>
  /\ diagnostics = <<>>
  /\ probes = <<>>
  /\ ikas301 = <<>>
  /\ downloads = {}

\* a dictionary with one more assignment d[k] = v
Put(d, k, v) == (k :> v) @@ d

\* lines 780-785: the barcodes of one row
RECURSIVE PutBarcodes(_, _, _)
PutBarcodes(d, codes, slug) ==
  IF codes = <<>> THEN d
  ELSE LET b_n == _normalize_sku(Head(codes))
       IN PutBarcodes(IF b_n # <<>> THEN Put(d, b_n, slug) ELSE d, Tail(codes), slug)

\* lines 775-788: the indexes after the rows of the export are read in order
RECURSIVE ReadRows(_)
ReadRows(rows) ==
  IF rows = <<>>
  THEN [sku |-> <<>>, barcode |-> <<>>, slugs |-> {}, titles |-> <<>>]
  ELSE LET prev  == ReadRows(SubSeq(rows, 1, Len(rows) - 1))
           r     == rows[Len(rows)]
           slug  == Strip(r.Slug)
           sku_n == _normalize_sku(r.SKU)
           bars  == Strip(r.Barkod)
           title_norm == _normalize_title(r.Isim)
       IN [sku     |-> IF sku_n # <<>> THEN Put(prev.sku, sku_n, slug) ELSE prev.sku,
           barcode |-> IF bars # <<>>
                       THEN PutBarcodes(prev.barcode, Split(bars, ";"), slug)
                       ELSE prev.barcode,
           slugs   |-> prev.slugs \cup {slug},
           titles  |-> IF title_norm # <<>>
                       THEN Append(prev.titles, <<title_norm, slug>>)
                       ELSE prev.titles]

\* lines 862-870
FromSlug(old_url) ==
  LET p         == urlparse(old_url).path
      from_path == IF StartsWith(p, <<"/">>) THEN p ELSE <<"/">> \o p
  IN LastField(StripChars(from_path, {"/"}), "/")

\* lines 871-876
ToSlug(target_path) ==
  LET p       == IF target_path # <<>> THEN urlparse(target_path).path ELSE <<>>
      to_path == IF StartsWith(p, <<"/">>) THEN p
                 ELSE IF p # <<>> THEN <<"/">> \o p ELSE <<>>
  IN IF to_path # <<>> THEN LastField(StripChars(to_path, {"/"}), "/") ELSE <<>>

\* the product branch as it would be with the barcode index consulted first
MatchTargetBarcodeFirst(page, sku, barcode, skus, barcodes, titles) ==
  IF page.type = "product"
  THEN IF barcode # <<>> /\ barcode \in DOMAIN barcodes
       THEN [target_path |-> <<"/","u","r","u","n","/">> \o barcodes[barcode],
             confidence |-> 980, reason |-> "barcode"]
       ELSE IF sku # <<>> /\ sku \in DOMAIN skus
       THEN [target_path |-> <<"/","u","r","u","n","/">> \o skus[sku],
             confidence |-> 1000, reason |-> "sku"]
       ELSE [target_path |-> <<>>, confidence |-> 0, reason |-> "unmatched"]
  ELSE IF page.type \in {"category", "blog", "page"}
  THEN [target_path |-> (IF page.type = "category" THEN <<"/">>
                         ELSE IF page.type = "blog" THEN <<"/","b","l","o","g","/">>
                         ELSE <<"/","p","a","g","e","s","/">>) \o page.slug,
        confidence |-> 0, reason |-> page.type]
  ELSE [target_path |-> <<>>, confidence |-> 0, reason |-> "non_product"]

\* the product branch as it would be with a barcode match given full confidence
MatchTargetBarcodeFull(page, sku, barcode, skus, barcodes, titles) ==
  LET m == MatchTargetBarcodeFirst(page, sku, <<>>, skus, barcodes, titles)
  IN IF page.type = "product" /\ m.reason = "unmatched"
        /\ barcode # <<>> /\ barcode \in DOMAIN barcodes
     THEN [target_path |-> <<"/","u","r","u","n","/">> \o barcodes[barcode],
           confidence |-> 1000, reason |-> "barcode"]
     ELSE m

\* the product branch as it would be with a last resort on the title index
MatchTargetTitleFallback(page, sku, barcode, skus, barcodes, titles) ==
  LET m == MatchTargetBarcodeFirst(page, sku, <<>>, skus, barcodes, titles)
      b == MatchTargetBarcodeFirst(page, <<>>, barcode, skus, barcodes, titles)
      t == _normalize_title(page.title)
      r == IF m.reason = "unmatched" THEN b ELSE m
  IN IF page.type = "product" /\ r.reason = "unmatched"
        /\ \E k \in DOMAIN titles : titles[k][1] = t
     THEN [target_path |-> <<"/","u","r","u","n","/">>
                             \o titles[CHOOSE k \in DOMAIN titles : titles[k][1] = t][2],
           confidence |-> 0, reason |-> "unmatched"]
     ELSE r

\* lines 800-845: target path, confidence (in thousandths) and reason of one
\* page; sku and barcode are the normalised values of lines 813-814
MatchTarget(page, sku, barcode, skus, barcodes, titles) ==
  IF page.type = "product"
  THEN IF sku # <<>> /\ sku \in DOMAIN skus
       THEN [target_path |-> <<"/","u","r","u","n","/">> \o skus[sku],
             confidence |-> 1000, reason |-> "sku"]
       ELSE IF barcode # <<>> /\ barcode \in DOMAIN barcodes
       THEN [target_path |-> <<"/","u","r","u","n","/">> \o barcodes[barcode],
             confidence |-> 980, reason |-> "barcode"]
       ELSE [target_path |-> <<>>, confidence |-> 0, reason |-> "unmatched"]
  ELSE IF page.type = "category"
  THEN [target_path |-> <<"/">> \o page.slug, confidence |-> 0, reason |-> "category"]
  ELSE IF page.type = "blog"
  THEN [target_path |-> <<"/","b","l","o","g","/">> \o page.slug,
        confidence |-> 0, reason |-> "blog"]
  ELSE IF page.type = "page"
  THEN [target_path |-> <<"/","p","a","g","e","s","/">> \o page.slug,
        confidence |-> 0, reason |-> "page"]
  ELSE [target_path |-> <<>>, confidence |-> 0, reason |-> "non_product"]

\* lines 808-816: the SKU and the barcode read from the product page; nothing
\* is read when the page is no product or its fetch failed
ProbeSku(soup) == IF ~soup.fetched THEN <<>> ELSE _normalize_sku(find_sku(soup))
ProbeBarcode(soup) == IF ~soup.fetched THEN <<>> ELSE _normalize_sku(find_barcode(soup))

\* lines 878-886
RedirectRow(page, m, sku) ==
  [from_url  |-> page.url,
   to_url    |-> m.target_path,
   from_slug |-> FromSlug(page.url),
   to_slug   |-> ToSlug(m.target_path),
   title     |-> page.title,
   sku       |-> sku,
   type      |-> page.type]

\* lines 888-895
DiagnosticRow(page, m, existence) ==
  [from_url       |-> page.url,
   to_url         |-> m.target_path,
   type           |-> page.type,
   reason         |-> m.reason,
   confidence     |-> m.confidence,
   exists_on_ikas |-> existence]

\* lines 907-916
KaynakAdres(row) ==
  LET path == urlparse(row.from_url).path
      v    == row.from_slug
  IN IF path # <<>>
     THEN (IF StartsWith(path, <<"/">>) THEN path ELSE <<"/">> \o path)
     ELSE (IF v # <<>> /\ ~StartsWith(v, <<"/">>) THEN <<"/">> \o v ELSE v)

\* lines 918-921
YonAdres(row) ==
  LET v == row.to_slug
  IN IF v # <<>> /\ ~StartsWith(v, <<"/">>) THEN <<"/">> \o v ELSE v

\* lines 923-929
Ikas301Row(row) ==
  [ID |-> <<>>, Kaynak |-> KaynakAdres(row), Yon |-> YonAdres(row),
   Gecici302 |-> "false", Silindi |-> "false"]

\* line 955
NeedsReview(d) ==
  d.type = "product" /\ (d.confidence < 800 \/ d.exists_on_ikas # "ok")

(***************************************************************************)
(* The inputs of the matcher.                                              *)
(***************************************************************************)
NoElems == <<>>
Elem(text, content, itemprop) ==
  [text |-> text, content |-> content, itemprop |-> itemprop]

ProductSoup(sku_elems, barcode_elems) ==
  [fetched |-> TRUE, sku_elems |-> sku_elems, barcode_elems |-> barcode_elems]

\* no document: the page is no product, or fetch_html returned None
NoSoup == [fetched |-> FALSE, sku_elems |-> NoElems, barcode_elems |-> NoElems]

\* the product documents a fetch of the matcher may return
ProductSoups ==
  {ProductSoup(NoElems, NoElems),
   ProductSoup(<<Elem(<<"S","K","U",":"," ","a","b"," ","1">>, None, FALSE)>>,
               <<Elem(<<"B","a","r","k","o","d",":"," ","8"," ","6">>, None, FALSE)>>),
   ProductSoup(<<Elem(<<>>, <<" ","z","z">>, TRUE)>>,
               <<Elem(<<>>, <<"8","7">>, FALSE)>>),
   ProductSoup(<<Elem(<<"a","b","1">>, None, FALSE)>>,
               <<Elem(<<"9","9">>, None, FALSE)>>)}

Row(slug, sku, barkod, isim) ==
  [Slug |-> slug, SKU |-> sku, Barkod |-> barkod, Isim |-> isim]

CsvRow1 == Row(<<"s","1">>, <<"A","b"," ","1">>, <<"8","6",";"," ","8","7">>,
               <<"Ouml","r"," ","-"," ","X">>)
CsvRow2 == Row(<<" ","s","2">>, <<>>, <<"8","6">>, <<"Y">>)

\* the uploads of line 727: none (no row is read), or the rows of the export
IkasCsvs == {<<>>, <<CsvRow1>>, <<CsvRow1, CsvRow2>>}

IkasSiteUrls == {<<>>, <<"h","t","t","p",":","/","/","i">>}

\* lines 847-860: the outcomes of the existence check
ExistenceOutcomes == {"ok", "status_404", "error"}

\* the handler as it would be if line 756 never stopped the script
NoPagesNever == FALSE

\* line 756: not pages
NoPages == result = <<>>

\* lines 756-758: no page was found; the script warns and stops
HandlerStop ==
  /\ pc = "returned"
  /\ NoPages
  /\ pc' = "stopped"
  /\ UNCHANGED <<crawlVars, matchVars, fetchVars, funVars>>

\* lines 760-792: the indexes are built from the upload
BuildIndex ==
  /\ pc = "returned"
  /\ ~NoPages
  /\ \E csv \in IkasCsvs, site \in IkasSiteUrls :
       LET ix == ReadRows(csv)
       IN /\ ikas_site_url' = site
          /\ sku_to_slug' = ix.sku
          /\ barcode_to_slug' = ix.barcode
          /\ slug_set' = ix.slugs
          /\ title_to_slug' = ix.titles
  /\ page_i' = 1
  /\ redirects_rows' = <<>>
  /\ diagnostics' = <<>>
  /\ pc' = "matching"
  /\ UNCHANGED <<crawlVars, probes, ikas301, downloads>>
  /\ UNCHANGED <<fetchVars, funVars>>

\* lines 794-895: one iteration of the matcher loop
MatchPage ==
  /\ pc = "matching"
  /\ page_i <= Len(result)
  /\ \E page \in {result[page_i]} :
     \E soup \in (IF page.type = "product" THEN ProductSoups \cup {NoSoup} ELSE {NoSoup}),
        existence \in (IF ikas_site_url # <<>> THEN ExistenceOutcomes ELSE {"unknown"}) :
     \E sku \in {ProbeSku(soup)}, barcode \in {ProbeBarcode(soup)} :
     \E m \in {MatchTarget(page, sku, barcode, sku_to_slug, barcode_to_slug,
                           title_to_slug)} :
       /\ redirects_rows' = Append(redirects_rows, RedirectRow(page, m, sku))
       /\ diagnostics' = Append(diagnostics, DiagnosticRow(page, m, existence))
       /\ probes' = Append(probes, [soup |-> soup, sku |-> sku,
                                    barcode |-> barcode, existence |-> existence])
  /\ page_i' = page_i + 1
  /\ UNCHANGED <<pc, crawlVars, ikas_site_url, sku_to_slug, barcode_to_slug, slug_set,
                 title_to_slug, ikas301, downloads>>
  /\ UNCHANGED <<fetchVars, funVars>>

\* lines 897-967: the redirect file, and the review file when a product
\* needs review
Export ==
  /\ pc = "matching"
  /\ page_i > Len(result)
  /\ ikas301' = [k \in DOMAIN redirects_rows |-> Ikas301Row(redirects_rows[k])]
  /\ downloads' = {"ikas_301.csv"}
                    \cup (IF \E k \in DOMAIN diagnostics : NeedsReview(diagnostics[k])
                          THEN {"inceleme_gerekenler.csv"} ELSE {})
  /\ pc' = "done"
  /\ UNCHANGED <<crawlVars, ikas_site_url, sku_to_slug, barcode_to_slug, slug_set,
                 title_to_slug, page_i, redirects_rows, diagnostics, probes>>
  /\ UNCHANGED <<fetchVars, funVars>>

(***************************************************************************)
(* fetch_html, lines 32-47.                                                *)
(***************************************************************************)
FetchIdle ==
  /\ f_pc = "idle"
  /\ max_retries = 0
  /\ attempt = 1
  /\ responses = <<>>
  /\ sleeps = <<>>
  /\ fetch_result = "pending"

\* what session.get may do: raise, or answer with a status and a content type
Statuses == {199, 200, 399, 400, 500}
Outcomes ==
  {[raised |-> TRUE, status |-> 0, html |-> FALSE]}
    \cup {[raised |-> FALSE, status |-> st, html |-> h] :
            st \in Statuses, h \in BOOLEAN}

\* line 38 as it would be without the test of the content type
ResponseOkAnyType(r) == ~r.raised /\ r.status >= 200 /\ r.status < 400

\* line 38
ResponseOk(r) == ~r.raised /\ r.status >= 200 /\ r.status < 400 /\ r.html

\* line 35: range(1, max_retries + 1)
MoreAttempts == attempt <= max_retries

\* lines 36-39: the request succeeds and its text is returned
AttemptOk ==
  /\ f_pc = "loop"
  /\ MoreAttempts
  /\ \E r \in Outcomes :
       /\ ResponseOk(r)
       /\ responses' = Append(responses, r)
  /\ fetch_result' = "text"
  /\ f_pc' = "returned"
  /\ UNCHANGED <<pc, crawlVars, matchVars, funVars, max_retries, attempt, sleeps>>

\* lines 36-45: the request fails; the function sleeps and goes on
AttemptFail ==
  /\ f_pc = "loop"
  /\ MoreAttempts
  /\ \E r \in Outcomes :
       /\ ~ResponseOk(r)
       /\ responses' = Append(responses, r)
  /\ sleeps' = Append(sleeps, attempt)
  /\ attempt' = attempt + 1
  /\ UNCHANGED <<pc, crawlVars, matchVars, funVars, f_pc, max_retries, fetch_result>>

\* lines 46-47
GiveUp ==
  /\ f_pc = "loop"
  /\ ~MoreAttempts
  /\ fetch_result' = "None"
  /\ f_pc' = "returned"
  /\ UNCHANGED <<pc, crawlVars, matchVars, funVars, max_retries, attempt, responses, sleeps>>

(***************************************************************************)
(* One call of _determine_page_type, lines 136-168.                        *)
(***************************************************************************)
TypeIdle ==
  /\ type_pc = "idle"
  /\ type_url = <<>>
  /\ type_soup = NoHtml
  /\ type_out = "none"

\* the URLs and documents _determine_page_type is called with
TypeUrls ==
  {SiteA \o p : p \in
     {<<>>, <<"/","x">>, <<"/","p","/","1">>, <<"/","P","-","1">>,
      <<"/","b","l","o","g","/","p","/","1">>,
      <<"/","c","a","t","e","g","o","r","y","/","b","l","o","g">>,
      <<"/","k","a","t","e","g","o","r","i","/","k">>,
      <<"/","h","a","b","e","r","/","9">>,
      <<"/","u","r","u","n","l","e","r">>}}

TypeSoups ==
  {Doc({}, None, [BlankContent EXCEPT !.og_type = og, !.product_div = d,
                                      !.breadcrumb = b]) :
     og \in {<<>>, <<"P","r","o","d","u","c","t">>, <<"a","r","t","i","c","l","e">>,
             <<"B","l","o","g">>, <<"w","e","b","s","i","t","e">>},
     d \in BOOLEAN, b \in BOOLEAN}

DetermineType ==
  /\ type_pc = "call"
  /\ type_out' = _determine_page_type(type_url, type_soup)
  /\ type_pc' = "done"
  /\ UNCHANGED <<pc, crawlVars, matchVars, fetchVars, type_url, type_soup,
                 priceVars, ldVars>>

(***************************************************************************)
(* clean_price_to_number, lines 49-68.  A float is held as the decimal     *)
(* number num / 10^scale with no trailing zero in its fraction; NoPrice    *)
(* stands for None.                                                        *)
(***************************************************************************)
NoPrice == [ok |-> FALSE, num |-> 0, scale |-> 0]

Price(num, scale) == [ok |-> TRUE, num |-> num, scale |-> scale]

\* lines 49, 57: PRICE_CLEAN_RE.sub("", t)
PRICE_CLEAN(t) == SelectSeq(t, LAMBDA c : c \in Digits \cup {",", ".", "-"})

RemoveChar(t, a) == SelectSeq(t, LAMBDA c : c # a)

Count(t, a) == Len(SelectSeq(t, LAMBDA c : c = a))

DigitVal(c) == CHOOSE n \in 0..9 : <<"0","1","2","3","4","5","6","7","8","9">>[n + 1] = c

RECURSIVE DigitsToNat(_)
DigitsToNat(ds) ==
  IF ds = <<>> THEN 0
  ELSE DigitsToNat(SubSeq(ds, 1, Len(ds) - 1)) * 10 + DigitVal(ds[Len(ds)])

RECURSIVE StripTrailingZeros(_)
StripTrailingZeros(ds) ==
  IF ds # <<>> /\ ds[Len(ds)] = "0"
  THEN StripTrailingZeros(SubSeq(ds, 1, Len(ds) - 1))
  ELSE ds

\* lines 65-68: float(t), None on ValueError; t holds only digits, "." and "-"
float(t) ==
  LET neg  == t # <<>> /\ t[1] = "-"
      body == IF neg THEN Tail(t) ELSE t
      dot  == IndexOfAny(body, {"."}, 1)
      ip   == IF dot > Len(body) THEN body ELSE SubSeq(body, 1, dot - 1)
      fp   == IF dot > Len(body) THEN <<>> ELSE SubSeq(body, dot + 1, Len(body))
      frac == StripTrailingZeros(fp)
      n    == DigitsToNat(ip \o frac)
  IN IF /\ \A i \in DOMAIN ip : ip[i] \in Digits
        /\ \A i \in DOMAIN fp : fp[i] \in Digits
        /\ ip \o fp # <<>>
     THEN Price(IF neg THEN 0 - n ELSE n, Len(frac))
     ELSE NoPrice

\* lines 58-64: the separators
Separators(t) ==
  IF Count(t, ",") > 0 /\ Count(t, ".") > 0
  THEN ReplaceChar(RemoveChar(t, "."), ",", ".")
  ELSE IF Count(t, ",") = 1 /\ Len(LastField(t, ",")) \in {1, 2}
  THEN ReplaceChar(t, ",", ".")
  ELSE RemoveChar(t, ",")

\* lines 51-68
clean_price_to_number(text) ==
  IF text = <<>> \/ Strip(text) = <<>> THEN NoPrice
  ELSE float(Separators(PRICE_CLEAN(Strip(text))))

PriceIdle ==
  /\ price_pc = "idle"
  /\ price_in = <<>>
  /\ price_out = NoPrice

PriceAlphabet == {"0", "1", ",", ".", "-", " ", "T"}

PriceExamples ==
  {<<"1",".","2","3","4",",","5","6"," ","T","L">>, <<"1","9",",","9","9">>,
   <<"1",",","2","3","4">>, <<"1",",","2","3","4",".","5","6">>,
   <<"1","0",",","0","0","0",".","5">>, <<"1",",","2",",","3">>}

\* the texts clean_price_to_number is called with
PriceTexts ==
  PriceExamples \cup UNION {[1..n -> PriceAlphabet] : n \in 0..MaxPriceLen}

CleanPrice ==
  /\ price_pc = "call"
  /\ price_out' = clean_price_to_number(price_in)
  /\ price_pc' = "done"
  /\ UNCHANGED <<pc, crawlVars, matchVars, fetchVars, typeVars, price_in, ldVars>>

(***************************************************************************)
(* parse_ld_json_product, lines 198-230: the choice of the product node.   *)
(* A block is what json.loads made of one ld+json script: a dict, a list   *)
(* of dicts, or nothing usable (empty text, a parse error, a scalar).  A   *)
(* node is a dict: its position in the document (id), its "@type" (absent, *)
(* a string or a list of strings) and the dicts of its "@graph" list.      *)
(***************************************************************************)
TNone == [kind |-> "none", vals |-> <<>>]
TStr(v) == [kind |-> "str", vals |-> <<v>>]
TList(vs) == [kind |-> "list", vals |-> vs]

\* stands for None where a node is expected
NoNode == [id |-> 0, type |-> TNone, graph |-> <<>>]

ProductWord == <<"p","r","o","d","u","c","t">>

\* str(t) of an "@type" value; of a list it is its repr
RECURSIVE JoinRepr(_)
JoinRepr(vs) ==
  IF vs = <<>> THEN <<>>
  ELSE <<"'">> \o Head(vs) \o <<"'">>
         \o (IF Len(vs) > 1 THEN <<",", " ">> ELSE <<>>) \o JoinRepr(Tail(vs))

Str(t) ==
  IF t.kind = "none" THEN <<>>
  ELSE IF t.kind = "str" THEN t.vals[1]
  ELSE <<"[">> \o JoinRepr(t.vals) \o <<"]">>

\* lines 215-222: the test of a candidate's own type
TopIsProduct(node) ==
  \/ node.type.kind = "list"
       /\ \E i \in DOMAIN node.type.vals : ToLower(node.type.vals[i]) = ProductWord
  \/ node.type.kind = "str" /\ ToLower(node.type.vals[1]) = ProductWord

\* line 225: the test of an object of "@graph"
SubIsProduct(sub) == ToLower(Str(sub.type)) = ProductWord

\* lines 200-211: the candidates of the blocks, in order
RECURSIVE Collect(_)
Collect(blocks) ==
  IF blocks = <<>> THEN <<>>
  ELSE (IF Head(blocks).kind \in {"dict", "list"} THEN Head(blocks).items ELSE <<>>)
         \o Collect(Tail(blocks))

LdIdle ==
  /\ ld_pc = "idle"
  /\ ld_blocks = <<>>
  /\ candidates = <<>>
  /\ ld_i = 1
  /\ product_node = NoNode

\* lines 199-213
LdCollect ==
  /\ ld_pc = "collect"
  /\ candidates' = Collect(ld_blocks)
  /\ ld_i' = 1
  /\ product_node' = NoNode
  /\ ld_pc' = "select"
  /\ UNCHANGED <<pc, crawlVars, matchVars, fetchVars, typeVars, priceVars, ld_blocks>>

\* lines 214-222: the candidate is a product; the loop is left
LdSelectTop ==
  /\ ld_pc = "select"
  /\ ld_i <= Len(candidates)
  /\ TopIsProduct(candidates[ld_i])
  /\ product_node' = candidates[ld_i]
  /\ ld_pc' = "done"
  /\ UNCHANGED <<pc, crawlVars, matchVars, fetchVars, typeVars, priceVars,
                 ld_blocks, candidates, ld_i>>

\* the first product of a "@graph" list, the node held so far when there is none
GraphProduct(graph, held) ==
  IF \E j \in DOMAIN graph : SubIsProduct(graph[j])
  THEN graph[CHOOSE j \in DOMAIN graph :
               SubIsProduct(graph[j]) /\ \A i \in 1..(j - 1) : ~SubIsProduct(graph[i])]
  ELSE held

\* lines 214-227: the candidate is no product; its "@graph" is searched and
\* the loop goes on with the next candidate
LdSelectGraph ==
  /\ ld_pc = "select"
  /\ ld_i <= Len(candidates)
  /\ ~TopIsProduct(candidates[ld_i])
  /\ product_node' = GraphProduct(candidates[ld_i].graph, product_node)
  /\ ld_i' = ld_i + 1
  /\ UNCHANGED <<pc, crawlVars, matchVars, fetchVars, typeVars, priceVars,
                 ld_pc, ld_blocks, candidates>>

\* lines 214, 229: the candidates are exhausted
LdEnd ==
  /\ ld_pc = "select"
  /\ ld_i > Len(candidates)
  /\ ld_pc' = "done"
  /\ UNCHANGED <<pc, crawlVars, matchVars, fetchVars, typeVars, priceVars,
                 ld_blocks, candidates, ld_i, product_node>>

\* the documents parse_ld_json_product is called with
MkNode(id, type, graph_types) ==
  [id |-> id, type |-> type,
   graph |-> [j \in DOMAIN graph_types |->
                [id |-> id + j, type |-> graph_types[j], graph |-> <<>>]]]

TProduct == TStr(<<"P","r","o","d","u","c","t">>)
TThing   == TStr(<<"T","h","i","n","g">>)
TBoth    == TList(<<<<"T","h","i","n","g">>, <<"P","R","O","D","U","C","T">>>>)

GraphShapes == {<<>>, <<TProduct>>, <<TThing, TProduct>>, <<TBoth>>}

NodeShapes == {TNone, TProduct, TThing, TBoth} \X GraphShapes

ListNodeShapes == {<<TThing, <<TProduct>>>>, <<TProduct, <<>>>>, <<TThing, <<>>>>, <<TBoth, <<>>>>}

BlockShapes ==
  {[kind |-> "invalid", nodes |-> <<>>]}
    \cup {[kind |-> "dict", nodes |-> <<n>>] : n \in NodeShapes}
    \cup {[kind |-> "list", nodes |-> <<a, b>>] : a, b \in ListNodeShapes}

LdDocs ==
  {[i \in DOMAIN d |->
      [kind |-> d[i].kind,
       items |-> [k \in DOMAIN d[i].nodes |->
                    MkNode(i * 100 + k * 10, d[i].nodes[k][1], d[i].nodes[k][2])]]] :
     d \in UNION {[1..n -> BlockShapes] : n \in 0..MaxBlocks}}

FunIdle == TypeIdle /\ PriceIdle /\ LdIdle

(***************************************************************************)
(* Spec: one call of find_all_page_links.                                  *)
(***************************************************************************)
Init == CrawlInit /\ MatchIdle /\ FetchIdle /\ FunIdle

Next ==
  \/ FetchStartFail
  \/ FetchStartOk
  \/ LoopSkip
  \/ LoopFetchFail
  \/ LoopVisit
  \/ LoopExit

Spec == Init /\ [][Next]_vars

(***************************************************************************)
(* SpecMatch: the script from the return of the crawl on, for every result *)
(* of at most MaxMatchPages pages.                                         *)
(***************************************************************************)
U_p    == SiteA \o <<"/","p","/","1">>
U_cat  == SiteA \o <<"/","c","a","t","e","g","o","r","y","/","k">>
U_blog == SiteA \o <<"/","b","l","o","g","/","n","-","1">>

MatchContent(u) ==
  IF u = U_y THEN [BlankContent EXCEPT !.product_div = TRUE,
                                       !.og_title = <<"Ouml","r"," ","-"," ","X">>]
  ELSE SiteContent(u)

MatchPages ==
  {CrawlPage(u, Doc({}, None, MatchContent(u))) : u \in {U_p, U_cat, U_blog, U_x, U_y}}

PageSeqs ==
  {q \in UNION {[1..n -> MatchPages] : n \in 0..MaxMatchPages} :
     \A a, b \in DOMAIN q : a # b => q[a] # q[b]}

InitMatch ==
  /\ pc = "returned"
  /\ result \in PageSeqs
  /\ all_pages = result
  /\ start_url = U_root
  /\ max_pages = MaxMatchPages
  /\ start_html = NoHtml
  /\ to_visit = <<>>
  /\ visited = {}
  /\ pages = Len(result)
  /\ origin = {}
  /\ fetched = <<>>
  /\ last = [kind |-> "none", url |-> <<>>, n |-> 0]
  /\ MatchIdle
  /\ FetchIdle
  /\ FunIdle

NextMatch ==
  \/ HandlerStop
  \/ BuildIndex
  \/ MatchPage
  \/ Export

SpecMatch == InitMatch /\ [][NextMatch]_vars

(***************************************************************************)
(* SpecScript: the whole script, the crawl with a budget of at most        *)
(* ScriptMaxPages pages followed by the matcher and the export.            *)
(***************************************************************************)
InitScript == Init /\ max_pages <= ScriptMaxPages /\ start_url \in {U_root, U_login}

NextScript ==
  \/ Next
  \/ HandlerStop
  \/ BuildIndex
  \/ MatchPage
  \/ Export

SpecScript == InitScript /\ [][NextScript]_vars

(***************************************************************************)
(* SpecFair: Spec, where the program goes on as long as it has a step to   *)
(* take (it is sequential, and every request has a timeout).               *)
(***************************************************************************)
SpecFair == Spec /\ WF_vars(Next)

(***************************************************************************)
(* SpecFetch: one call of fetch_html.                                      *)
(***************************************************************************)
InitFetch ==
  /\ pc = "idle"
  /\ start_url = U_root
  /\ max_pages = 0
  /\ start_html = NoHtml
  /\ to_visit = <<>>
  /\ visited = {}
  /\ all_pages = <<>>
  /\ pages = 0
  /\ origin = {}
  /\ fetched = <<>>
  /\ last = [kind |-> "none", url |-> <<>>, n |-> 0]
  /\ result = <<>>
  /\ MatchIdle
  /\ f_pc = "loop"
  /\ max_retries \in 0..MaxRetriesBound
  /\ attempt = 1
  /\ responses = <<>>
  /\ sleeps = <<>>
  /\ fetch_result = "pending"
  /\ FunIdle

NextFetch ==
  \/ AttemptOk
  \/ AttemptFail
  \/ GiveUp

SpecFetch == InitFetch /\ [][NextFetch]_vars

\* everything but the function under study is at rest
CrawlIdle ==
  /\ pc = "idle"
  /\ start_url = U_root
  /\ max_pages = 0
  /\ start_html = NoHtml
  /\ to_visit = <<>>
  /\ visited = {}
  /\ all_pages = <<>>
  /\ pages = 0
  /\ origin = {}
  /\ fetched = <<>>
  /\ last = [kind |-> "none", url |-> <<>>, n |-> 0]
  /\ result = <<>>

(***************************************************************************)
(* SpecType: one call of _determine_page_type.                             *)
(***************************************************************************)
InitType ==
  /\ CrawlIdle /\ MatchIdle /\ FetchIdle /\ PriceIdle /\ LdIdle
  /\ type_pc = "call"
  /\ type_url \in TypeUrls
  /\ type_soup \in TypeSoups
  /\ type_out = "none"

NextType == DetermineType

SpecType == InitType /\ [][NextType]_vars

(***************************************************************************)
(* SpecPrice: one call of clean_price_to_number.                           *)
(***************************************************************************)
InitPrice ==
  /\ CrawlIdle /\ MatchIdle /\ FetchIdle /\ TypeIdle /\ LdIdle
  /\ price_pc = "call"
  /\ price_in \in PriceTexts
  /\ price_out = NoPrice

NextPrice == CleanPrice

SpecPrice == InitPrice /\ [][NextPrice]_vars

(***************************************************************************)
(* SpecLd: one call of parse_ld_json_product.                              *)
(***************************************************************************)
InitLd ==
  /\ CrawlIdle /\ MatchIdle /\ FetchIdle /\ TypeIdle /\ PriceIdle
  /\ ld_pc = "collect"
  /\ ld_blocks \in LdDocs
  /\ candidates = <<>>
  /\ ld_i = 1
  /\ product_node = NoNode

NextLd ==
  \/ LdCollect
  \/ LdSelectTop
  \/ LdSelectGraph
  \/ LdEnd

SpecLd == InitLd /\ [][NextLd]_vars

(***************************************************************************)
(* Properties of the crawl, checked under Spec and SpecFair.               *)
(***************************************************************************)
\* the URLs a crawl may still fetch: queued, not visited, not excluded
Discoverable ==
  {to_visit[i] : i \in DOMAIN to_visit} \ (visited \cup {u \in RawUrls : UrlInfo[u].excluded})

\* C1: in one run of find_all_page_links at most max_pages URLs are marked
\* visited and at most max_pages page records are recorded and returned,
\* whatever the links and the fetch outcomes, also when more URLs could be
\* crawled.
C1_Budget ==
  /\ Cardinality(visited) <= max_pages
  /\ pages <= max_pages
  /\ Len(all_pages) <= max_pages
  /\ Len(result) <= max_pages

\* the budget is exhausted while a URL that could be crawled is still queued
C1_Witness ==
  /\ pc = "returned"
  /\ max_pages > 0
  /\ Cardinality(visited) = max_pages
  /\ Discoverable # {}

\* C2: the loop of find_all_page_links terminates; it is left only with the
\* queue empty or max_pages URLs visited, and the function then returns every
\* page recorded.
C2_Terminates ==
  /\ <>(pc = "returned")
  /\ [](pc = "returned" /\ origin # {} =>
          /\ to_visit = <<>> \/ Cardinality(visited) = max_pages
          /\ result = all_pages)

\* the queue ran empty before the budget was reached, with pages returned
C2_Witness ==
  /\ pc = "returned"
  /\ to_visit = <<>>
  /\ Cardinality(visited) < max_pages
  /\ Len(result) >= 2

\* C3: the visited set never holds two different strings with the same
\* normalized form (scheme, host and path), however they entered the queue.
C3_NormalizedVisited ==
  \A u, v \in visited : UrlInfo[u].normal = UrlInfo[v].normal => u = v

\* the URLs the exclusion rule is stated for: containing /checkout, /sepet,
\* /login or /api/, or ending in .json, .xml or .rss
ListedExcluded(u) ==
  \/ \E pat \in {<<"/","c","h","e","c","k","o","u","t">>, <<"/","s","e","p","e","t">>,
                 <<"/","l","o","g","i","n">>, <<"/","a","p","i","/">>} : Contains(u, pat)
  \/ \E suf \in {<<".","j","s","o","n">>, <<".","x","m","l">>, <<".","r","s","s">>} :
       EndsWith(u, suf)

ListedExcludedUrls == {u \in RawUrls : ListedExcluded(u)}

\* C4 as stated: a listed URL is never in the queue and never visited.
C4_NeverQueued ==
  \A u \in ListedExcludedUrls :
    /\ ~InQueue(u, to_visit)
    /\ u \notin visited
    /\ \A k \in DOMAIN all_pages : all_pages[k].url # u

\* C4: a listed URL is never marked visited, never fetched inside the loop,
\* never recorded as a page and never queued as an anchor link; it is in
\* the queue only as the start URL or as a pagination link, and is dropped
\* when it is dequeued.
C4_NeverVisited ==
  \A u \in ListedExcludedUrls :
    /\ u \notin visited
    /\ \A k \in DOMAIN all_pages : all_pages[k].url # u
    /\ \A i \in 2..Len(fetched) : fetched[i] # u
    /\ <<u, "anchor">> \notin origin
    /\ InQueue(u, to_visit) => <<u, "start">> \in origin \/ <<u, "next">> \in origin
    /\ last.url = u => last.kind = "skipped"

\* a listed URL that was a pagination link has been dequeued and dropped
C4_Witness ==
  /\ last.kind = "skipped"
  /\ last.url \in ListedExcludedUrls
  /\ <<last.url, "next">> \in origin
  /\ last.url \notin visited

\* C10: when the fetch of a dequeued URL other than the start URL fails, no
\* page is recorded for it, the pages recorded are unchanged, the queue is
\* the rest of the queue, and the function neither raises nor returns: the
\* loop goes on with the rest of the queue.
C10_SoftFailure ==
  [][last'.n # last.n /\ last'.kind = "fetch_failed" =>
       /\ last'.url = Head(to_visit)
       /\ last'.url # start_url
       /\ all_pages' = all_pages
       /\ \A k \in DOMAIN all_pages' : all_pages'[k].url # last'.url
       /\ to_visit' = Tail(to_visit)
       /\ result' = result
       /\ pc' = "loop"]_vars

\* a fetch failed and the crawl then recorded the next queued URL
C10_Witness ==
  /\ last.kind = "visited"
  /\ Len(fetched) >= 3
  /\ fetched[Len(fetched)] = last.url
  /\ \A k \in DOMAIN all_pages : all_pages[k].url # fetched[Len(fetched) - 1]

\* C16: every page returned by find_all_page_links has a URL without query
\* string and without fragment, and no two returned pages have the same
\* normalized URL, also for the start URL and for pagination links.
C16_CleanPageUrls ==
  /\ \A k \in DOMAIN result :
       /\ urlparse(result[k].url).query = <<>>
       /\ urlparse(result[k].url).fragment = <<>>
  /\ \A j, k \in DOMAIN result :
       UrlInfo[result[j].url].normal = UrlInfo[result[k].url].normal => j = k

\* C17: the queue never holds a URL twice and never holds a visited URL, so
\* the URL about to be dequeued is not visited.
C17_QueueDistinct ==
  /\ \A i, j \in DOMAIN to_visit : to_visit[i] = to_visit[j] => i = j
  /\ \A i \in DOMAIN to_visit : to_visit[i] \notin visited
  /\ to_visit # <<>> => Head(to_visit) \notin visited

\* several pages are visited and several URLs, one of them a pagination
\* link, wait in the queue
C17_Witness ==
  /\ pc = "loop"
  /\ last.kind = "visited"
  /\ Cardinality(visited) >= 2
  /\ Len(to_visit) >= 2
  /\ \E i \in DOMAIN to_visit : <<to_visit[i], "next">> \in origin

\* C18: every URL visited or recorded has the host of the start URL.
C18_SameHost ==
  /\ \A u \in visited : UrlInfo[u].netloc = UrlInfo[start_url].netloc
  /\ \A k \in DOMAIN all_pages :
       UrlInfo[all_pages[k].url].netloc = UrlInfo[start_url].netloc

(***************************************************************************)
(* Properties of the matcher, checked under SpecMatch.                     *)
(***************************************************************************)
Urun == <<"/","u","r","u","n","/">>

\* C5: a product page whose normalised SKU is a key of the SKU index and
\* whose normalised barcode is a key of the barcode index is resolved by the
\* SKU: target /urun/<slug of the SKU index>, confidence 1.0, reason "sku";
\* the reason is "barcode" only when the SKU is no key of the SKU index.
C5_SkuPriority ==
  \A k \in DOMAIN diagnostics :
    result[k].type = "product" =>
      /\ (probes[k].sku \in DOMAIN sku_to_slug
            /\ probes[k].barcode \in DOMAIN barcode_to_slug) =>
           /\ diagnostics[k].reason = "sku"
           /\ diagnostics[k].confidence = 1000
           /\ diagnostics[k].to_url = Urun \o sku_to_slug[probes[k].sku]
           /\ redirects_rows[k].to_url = Urun \o sku_to_slug[probes[k].sku]
      /\ diagnostics[k].reason = "barcode" => probes[k].sku \notin DOMAIN sku_to_slug

\* SKU and barcode of a product page both match, with different slugs
C5_Witness ==
  \E k \in DOMAIN diagnostics :
    /\ result[k].type = "product"
    /\ probes[k].sku \in DOMAIN sku_to_slug
    /\ probes[k].barcode \in DOMAIN barcode_to_slug
    /\ sku_to_slug[probes[k].sku] # barcode_to_slug[probes[k].barcode]

\* C6: in every diagnostic entry the reason is "sku" exactly when the
\* confidence is 1.0, "barcode" exactly when it is 0.98, and every other
\* reason (unmatched, category, blog, page, non_product) has confidence 0.0;
\* a product entry has an empty target exactly when its reason is "unmatched".
C6_ReasonConfidence ==
  \A k \in DOMAIN diagnostics :
    LET d == diagnostics[k]
    IN /\ d.reason = "sku" <=> d.confidence = 1000
       /\ d.reason = "barcode" <=> d.confidence = 980
       /\ d.reason \notin {"sku", "barcode"} =>
            /\ d.confidence = 0
            /\ d.reason \in {"unmatched", "category", "blog", "page", "non_product"}
       /\ d.type = "product" => (d.to_url = <<>> <=> d.reason = "unmatched")

\* one product matched by its barcode and one product unmatched
C6_Witness ==
  /\ \E k \in DOMAIN diagnostics : diagnostics[k].reason = "barcode"
  /\ \E k \in DOMAIN diagnostics : diagnostics[k].reason = "unmatched"

\* the title indexes of the uploads, and one per page holding its own title
TitleIndexes ==
  {ReadRows(csv).titles : csv \in IkasCsvs}
    \cup {<<<<_normalize_title(p.title), <<"t">>>>>> : p \in MatchPages}

\* C7: the redirect and diagnostic entries are those of a run with any
\* other title index and the same SKU and barcode indexes, and no step of
\* the matcher or of the export changes the title index.
C7_NoTitleMatching ==
  /\ [](\A k \in DOMAIN diagnostics : \A titles \in TitleIndexes :
          LET m == MatchTarget(result[k], probes[k].sku, probes[k].barcode,
                               sku_to_slug, barcode_to_slug, titles)
          IN /\ redirects_rows[k] = RedirectRow(result[k], m, probes[k].sku)
             /\ diagnostics[k] = DiagnosticRow(result[k], m, probes[k].existence))
  /\ [][pc # "returned" => title_to_slug' = title_to_slug]_vars

\* an unmatched product whose normalised title is in the title index
C7_Witness ==
  \E k \in DOMAIN diagnostics :
    /\ result[k].type = "product"
    /\ diagnostics[k].reason = "unmatched"
    /\ \E j \in DOMAIN title_to_slug :
         title_to_slug[j][1] = _normalize_title(result[k].title)

\* C11: the target column of every row of the redirect file is the target
\* path of its page: /{slug} for a category, /blog/{slug} for a blog page,
\* /pages/{slug} for a static page, /urun/{slug} for a matched product and
\* empty for an unmatched product.
C11_TargetColumn ==
  \A k \in DOMAIN ikas301 :
    /\ ikas301[k].Yon = diagnostics[k].to_url
    /\ result[k].type = "category" => ikas301[k].Yon = <<"/">> \o result[k].slug
    /\ result[k].type = "blog" =>
         ikas301[k].Yon = <<"/","b","l","o","g","/">> \o result[k].slug
    /\ result[k].type = "page" =>
         ikas301[k].Yon = <<"/","p","a","g","e","s","/">> \o result[k].slug
    /\ (result[k].type = "product" /\ diagnostics[k].reason = "unmatched") =>
         ikas301[k].Yon = <<>>
    /\ diagnostics[k].reason = "sku" =>
         ikas301[k].Yon = Urun \o sku_to_slug[probes[k].sku]
    /\ diagnostics[k].reason = "barcode" =>
         ikas301[k].Yon = Urun \o barcode_to_slug[probes[k].barcode]

(***************************************************************************)
(* Properties of fetch_html, checked under SpecFetch.                      *)
(***************************************************************************)
\* a response with a status in [200,400) and an HTML content type
OkResponse(r) == ~r.raised /\ r.status \in 200..399 /\ r.html

\* C8: fetch_html makes at most max_retries attempts; it returns the text
\* at the first attempt with a status in [200,400) and an HTML content type
\* and makes no attempt after it; it returns None only after max_retries
\* failed attempts.
C8_Retries ==
  /\ Len(responses) <= max_retries
  /\ \A i \in 1..(Len(responses) - 1) : ~OkResponse(responses[i])
  /\ f_pc = "loop" => fetch_result = "pending"
                        /\ \A i \in DOMAIN responses : ~OkResponse(responses[i])
  /\ fetch_result = "text" => responses # <<>> /\ OkResponse(responses[Len(responses)])
  /\ fetch_result = "None" => /\ Len(responses) = max_retries
                              /\ \A i \in DOMAIN responses : ~OkResponse(responses[i])

\* the text is returned at the second attempt of three
C8_Witness ==
  /\ fetch_result = "text"
  /\ Len(responses) = 2
  /\ max_retries = 3

(***************************************************************************)
(* Properties of the script, checked under SpecScript.                     *)
(***************************************************************************)
\* the fetch of line 651 failed
StartFetchFailed == pc \notin {"call", "idle"} /\ origin = {}

\* C9: when the start URL cannot be fetched the crawl returns no page; and
\* whenever the crawl returns no page the script stops at line 758 having
\* built no redirect file and no diagnostics file.
C9_NoSilentOutput ==
  /\ StartFetchFailed => result = <<>>
  /\ (pc \notin {"call", "loop"} /\ result = <<>>) =>
       /\ pc \in {"returned", "stopped"}
       /\ downloads = {}
       /\ ikas301 = <<>>
       /\ diagnostics = <<>>

\* the start URL could not be fetched and the script has stopped
C9_Witness ==
  /\ StartFetchFailed
  /\ pc = "stopped"
  /\ fetched = <<start_url>>

\* C12: the source column of every row of the redirect file is the path of
\* the page's URL and begins with "/", also for the start page, whose URL
\* has an empty path.
C12_SourceColumn ==
  \A k \in DOMAIN ikas301 :
    /\ StartsWith(ikas301[k].Kaynak, <<"/">>)
    /\ urlparse(result[k].url).path # <<>> =>
         ikas301[k].Kaynak = urlparse(result[k].url).path

(***************************************************************************)
(* Properties of _determine_page_type, checked under SpecType.             *)
(***************************************************************************)
UrlGroup(url, patterns) ==
  \E p \in patterns : Contains(urlparse(ToLower(url)).path, p)

HtmlHint(soup) ==
  \/ Contains(ToLower(soup.og_type), ProductWord)
  \/ Contains(ToLower(soup.og_type), <<"a","r","t","i","c","l","e">>)
  \/ Contains(ToLower(soup.og_type), <<"b","l","o","g">>)
  \/ soup.product_div
  \/ soup.breadcrumb

\* C15: the URL path is tested first, product patterns, then blog patterns,
\* then category patterns, and the first group that matches decides the
\* type whatever the document holds; the document decides only when no
\* group matches, and the type is "page" when neither matches.
C15_UrlFirst ==
  type_pc = "done" =>
    LET P == UrlGroup(type_url, product_patterns)
        B == UrlGroup(type_url, blog_patterns)
        K == UrlGroup(type_url, category_patterns)
    IN /\ P => type_out = "product"
       /\ (~P /\ B) => type_out = "blog"
       /\ (~P /\ ~B /\ K) => type_out = "category"
       /\ (P \/ B \/ K) =>
            \A soup \in TypeSoups : _determine_page_type(type_url, soup) = type_out
       /\ ~(P \/ B \/ K) => type_out \in {"product", "blog", "page"}
       /\ (~(P \/ B \/ K) /\ ~HtmlHint(type_soup)) => type_out = "page"
       /\ (~(P \/ B \/ K) /\ type_out = "page") =>
            ~Contains(ToLower(type_soup.og_type), ProductWord) /\ ~type_soup.product_div

\* a URL with a blog and a product pattern and a document that says article
\* is a product
C15_Witness ==
  /\ type_pc = "done"
  /\ UrlGroup(type_url, product_patterns)
  /\ UrlGroup(type_url, blog_patterns)
  /\ Contains(ToLower(type_soup.og_type), <<"a","r","t","i","c","l","e">>)
  /\ type_out = "product"

(***************************************************************************)
(* Properties of clean_price_to_number, checked under SpecPrice.           *)
(***************************************************************************)
\* C14: "1.234,56 TL" gives 1234.56, "19,99" gives 19.99, "1,234" gives
\* 1234, and a text with a comma followed by three digits and a later dot,
\* "1,234.56", gives 1234.56.
C14_CommaRule ==
  price_pc = "done" =>
    /\ price_in = <<"1",".","2","3","4",",","5","6"," ","T","L">> =>
         price_out = Price(123456, 2)
    /\ price_in = <<"1","9",",","9","9">> => price_out = Price(1999, 2)
    /\ price_in = <<"1",",","2","3","4">> => price_out = Price(1234, 0)
    /\ price_in = <<"1",",","2","3","4",".","5","6">> => price_out = Price(123456, 2)

(***************************************************************************)
(* Properties of parse_ld_json_product, checked under SpecLd.              *)
(***************************************************************************)
\* the objects of the blocks in document order: each candidate followed by
\* the objects of its "@graph"
RECURSIVE DocumentOrder(_)
DocumentOrder(nodes) ==
  IF nodes = <<>> THEN <<>>
  ELSE <<Head(nodes)>> \o Head(nodes).graph \o DocumentOrder(Tail(nodes))

\* "@type" is "Product" in any case, as a string or in a list
IsProduct(node) ==
  \E i \in DOMAIN node.type.vals : ToLower(node.type.vals[i]) = ProductWord

\* C13: the node selected is the first object in document order whose
\* "@type" is Product, and None when there is none.
C13_FirstProduct ==
  ld_pc = "done" =>
    LET objs == DocumentOrder(Collect(ld_blocks))
    IN IF \E i \in DOMAIN objs : IsProduct(objs[i])
       THEN \E i \in DOMAIN objs :
              /\ IsProduct(objs[i])
              /\ \A j \in 1..(i - 1) : ~IsProduct(objs[j])
              /\ product_node = objs[i]
       ELSE product_node = NoNode

====
